---- MODULE Spec2Model ----
(***************************************************************************)
(* Quintet Rooting (quintet_rooting.py): the search space of rooted trees  *)
(* (get_all_rooted_trees), the quintet sampling dispatch, the per-quintet  *)
(* preprocessing, the scoring pass, the choice of the best rooting and the *)
(* confidence scores.                                                      *)
(*                                                                         *)
(* A tree is a record [seed, par, kids, rooted]: leaves are the taxa       *)
(* 1..n, internal nodes are negative integers, par maps a node to its      *)
(* parent (NoNode for the seed node) and kids maps a node to the ordered   *)
(* list of its children, as dendropy keeps them.  An edge is named by its  *)
(* head node (dendropy: node.edge, edge.tail_node = node.parent_node).     *)
(***************************************************************************)
EXTENDS Integers, Sequences, FiniteSets, TLC

VARIABLES
    pc,                       \* position in main / get_all_rooted_trees
    unrooted_species,         \* the species tree as read (force-unrooted)
    tree,                     \* get_all_rooted_trees: the working copy being rerooted
    stack,                    \* get_all_rooted_trees: the stack of preorder_edge_iter
    rooted_candidates,        \* the list of rooted candidate trees
    di,                       \* get_all_rooted_trees: index of the duplicate-removal loop
    n_ok,                     \* number of edges whose rerooting succeeded
    n_exc,                    \* number of edges whose rerooting raised
    gene_trees,               \* the gene-tree collection (see GeneTreeInputs)
    sampling_method,          \* args.samplingmethod.lower()
    sample_quintet_taxa,      \* list of sampled 5-tuples of taxa
    quintet_scores,           \* list (one per quintet) of the 7 rooting costs
    quintet_unrooted_indices, \* list (one per quintet) of unrooted topology indices
    quintets_r_all,           \* list of per-quintet rooted template lists
    r_score,                  \* list (one per candidate) of total costs
    ci,                       \* scoring loop: candidate index i (0-based)
    qj,                       \* preprocessing / scoring loop: quintet index j (0-based)
    min_idx,                  \* np.argmin(r_score), 0-based; -1 before it is computed
    output,                   \* the tree written to output_path, or NoOutput
    confidencescore,          \* args.confidencescore, as read at the end of main
    confidence_scores,        \* list of confidence scores, or <<>>
    rank_file,                \* the records written to output_path.rank.cfn
    pre_done,                 \* SpecPar: quintets already preprocessed
    score_done                \* SpecPar: candidates already scored

rootVars == <<tree, stack, di, n_ok, n_exc>>
mainVars == <<gene_trees, sampling_method, sample_quintet_taxa, quintet_scores,
              quintet_unrooted_indices, quintets_r_all, r_score, ci, qj, min_idx,
              output, confidencescore, confidence_scores, rank_file>>
parVars == <<pre_done, score_done>>
vars == <<pc, unrooted_species, rooted_candidates, rootVars, mainVars, parVars>>

(***************************************************************************)
(* Bounds and program constants                                            *)
(***************************************************************************)
MaxTaxa == 6
QuintetSize == 5
NumRootings == 7

NoNode == 0
NoOutput == <<>>

(***************************************************************************)
(* Sequence helpers                                                        *)
(***************************************************************************)
Range(s) == {s[x] : x \in DOMAIN s}

Reverse(s) == [x \in 1..Len(s) |-> s[Len(s) + 1 - x]]

RemoveAt(s, p) == [x \in 1..(Len(s) - 1) |-> IF x < p THEN s[x] ELSE s[x + 1]]

RemoveElem(s, e) == SelectSeq(s, LAMBDA y : y # e)

ReplaceElem(s, e, f) == [x \in 1..Len(s) |-> IF s[x] = e THEN f ELSE s[x]]

RECURSIVE SumSeq(_)
SumSeq(s) == IF s = <<>> THEN 0 ELSE s[1] + SumSeq(Tail(s))

SetMax(S) == CHOOSE m \in S : \A y \in S : y <= m

SetMin(S) == CHOOSE m \in S : \A y \in S : m <= y

(***************************************************************************)
(* dendropy tree operations used by get_all_rooted_trees                   *)
(***************************************************************************)
NodesOf(t) == DOMAIN t.kids

LeavesOf(t) == {x \in NodesOf(t) : t.kids[x] = <<>>}

\* a node object that is not yet part of the tree
FreshNode(t) ==
    LET used == {0 - x : x \in NodesOf(t)}
        m == CHOOSE c \in 1..(Cardinality(NodesOf(t)) + 1) :
                 c \notin used /\ \A b \in 1..(c - 1) : b \in used
    IN 0 - m

\* Node.new_child: a new node appended to the children of p
new_child(t, p, f) ==
    [t EXCEPT !.par = [x \in NodesOf(t) \cup {f} |-> IF x = f THEN p ELSE t.par[x]],
              !.kids = [x \in NodesOf(t) \cup {f} |->
                           IF x = f THEN <<>>
                           ELSE IF x = p THEN Append(t.kids[p], f) ELSE t.kids[x]]]

\* Node.remove_child
remove_child(t, p, c) ==
    [t EXCEPT !.par[c] = NoNode, !.kids[p] = RemoveElem(t.kids[p], c)]

\* Node.add_child: c appended to the children of p
add_child(t, p, c) ==
    [t EXCEPT !.par[c] = p, !.kids[p] = Append(t.kids[p], c)]

\* the edges from new_seed up to the old seed node are reversed
RECURSIVE reverse_path(_, _)
reverse_path(t, new_seed) ==
    IF t.par[new_seed] = NoNode THEN t
    ELSE LET old_par == t.par[new_seed]
             t1 == reverse_path(t, old_par)
             t2 == remove_child(t1, old_par, new_seed)
         IN [add_child(t2, new_seed, old_par) EXCEPT !.seed = new_seed]

\* a node left with one child is removed, its child taking its place
suppress_unifurcation(t, x) ==
    IF x \notin NodesOf(t) \/ Len(t.kids[x]) # 1 \/ t.par[x] = NoNode THEN t
    ELSE LET c == t.kids[x][1]
             p == t.par[x]
             keep == NodesOf(t) \ {x}
         IN [t EXCEPT !.par = [y \in keep |-> IF y = c THEN p ELSE t.par[y]],
                      !.kids = [y \in keep |->
                                   IF y = p THEN ReplaceElem(t.kids[p], x, c)
                                   ELSE t.kids[y]]]

\* Tree.reroot_at_node (through reseed_at): the tree becomes rooted
reroot_at_node(t, new_seed) ==
    LET old_seed == t.seed
        t1 == reverse_path(t, new_seed)
    IN [suppress_unifurcation(t1, old_seed) EXCEPT !.rooted = TRUE]

\* the root edge has no tail node: reroot_at_edge raises on it
RerootRaises(t, x) == t.par[x] = NoNode

\* Tree.reroot_at_edge(edge, update_bipartitions=True), edge = the edge above x:
\* a new node is put on the edge and the tree is rerooted at it
reroot_at_edge(t, x) ==
    LET old_tail == t.par[x]
        f == FreshNode(t)
        t1 == new_child(t, old_tail, f)
        t2 == remove_child(t1, old_tail, x)
        t3 == add_child(t2, f, x)
    IN reroot_at_node(t3, f)

RECURSIVE LeafSet(_, _)
LeafSet(t, x) ==
    IF t.kids[x] = <<>> THEN {x}
    ELSE UNION {LeafSet(t, t.kids[x][c]) : c \in 1..Len(t.kids[x])}

\* the bipartition encoding of a tree: the leaf sets below its edges for a
\* rooted tree, the splits (normalised to the side without the lowest taxon)
\* for an unrooted one
Bipartitions(t) ==
    LET all == LeavesOf(t)
        low == SetMin(all)
        below == {LeafSet(t, x) : x \in NodesOf(t)}
    IN IF t.rooted THEN below
       ELSE {IF low \in b THEN all \ b ELSE b : b \in below} \ {{}}

SymDiffUnrooted(t1, t2) ==
    LET b1 == Bipartitions([t1 EXCEPT !.rooted = FALSE])
        b2 == Bipartitions([t2 EXCEPT !.rooted = FALSE])
    IN Cardinality(b1 \ b2) + Cardinality(b2 \ b1)

\* dendropy.calculate.treecompare.symmetric_difference
symmetric_difference(t1, t2) ==
    LET b1 == Bipartitions(t1)
        b2 == Bipartitions(t2)
    IN Cardinality(b1 \ b2) + Cardinality(b2 \ b1)

(***************************************************************************)
(* get_all_rooted_trees, one loop iteration at a time.  A generator state  *)
(* is [tree, stack, cands, ok, exc].                                       *)
(***************************************************************************)
\* for edge in tree.preorder_edge_iter(): the body aborts the whole loop
EdgeStepFatal(g) ==
    LET x == g.stack[Len(g.stack)]
        rest == SubSeq(g.stack, 1, Len(g.stack) - 1)
    IN IF RerootRaises(g.tree, x)
       THEN [g EXCEPT !.stack = <<>>, !.exc = g.exc + 1]
       ELSE LET t2 == reroot_at_edge(g.tree, x)
            IN [tree |-> t2, stack |-> rest \o Reverse(t2.kids[x]),
                cands |-> Append(g.cands, t2), ok |-> g.ok + 1, exc |-> g.exc]

\* for edge in tree.preorder_edge_iter(): try reroot / append, except continue.
\* The iterator pops a node, yields its edge, and when resumed pushes the
\* node's children (as they are then) in reverse.
EdgeStep(g) ==
    LET x == g.stack[Len(g.stack)]
        rest == SubSeq(g.stack, 1, Len(g.stack) - 1)
    IN IF RerootRaises(g.tree, x)
       THEN [g EXCEPT !.stack = rest \o Reverse(g.tree.kids[x]), !.exc = g.exc + 1]
       ELSE LET t2 == reroot_at_edge(g.tree, x)
            IN [tree |-> t2, stack |-> rest \o Reverse(t2.kids[x]),
                cands |-> Append(g.cands, t2), ok |-> g.ok + 1, exc |-> g.exc]

\* tree = dendropy.Tree(unrooted_tree); rooted_candidates = []
GenStart(t) == [tree |-> t, stack |-> <<t.seed>>, cands |-> <<>>, ok |-> 0, exc |-> 0]

RECURSIVE EdgeLoop(_)
EdgeLoop(g) == IF g.stack = <<>> THEN g ELSE EdgeLoop(EdgeStep(g))

\* the test of the duplicate-removal loop at index p (1-based position p + 1)
IsDuplicateUnrooted(cands, p) == SymDiffUnrooted(cands[1], cands[p + 1]) = 0

IsDuplicate(cands, p) == symmetric_difference(cands[1], cands[p + 1]) = 0

\* for i in range(1, len(rooted_candidates)): if ... == 0: pop(i); break
RECURSIVE DedupLoop(_, _)
DedupLoop(cands, p) ==
    IF p >= Len(cands) THEN cands
    ELSE IF IsDuplicate(cands, p) THEN RemoveAt(cands, p + 1)
    ELSE DedupLoop(cands, p + 1)

get_all_rooted_trees(t) == DedupLoop(EdgeLoop(GenStart(t)).cands, 1)

(***************************************************************************)
(* Input species trees: fully resolved unrooted trees, with the basal      *)
(* trifurcation of an unrooted Newick string or the basal bifurcation of a *)
(* rooted one read with rooting="force-unrooted".                          *)
(***************************************************************************)
Star3 ==
    [seed |-> -1, rooted |-> FALSE,
     par |-> [x \in {-1, 1, 2, 3} |-> IF x = -1 THEN NoNode ELSE -1],
     kids |-> [x \in {-1, 1, 2, 3} |-> IF x = -1 THEN <<1, 2, 3>> ELSE <<>>]]

\* leaf l attached to the edge above x, l becoming the sibling of x
AttachLeaf(t, x, l) ==
    LET f == FreshNode(t)
        p == t.par[x]
        all == NodesOf(t) \cup {f, l}
    IN [t EXCEPT !.par = [y \in all |-> IF y = f THEN p
                                        ELSE IF y \in {x, l} THEN f ELSE t.par[y]],
                 !.kids = [y \in all |-> IF y = f THEN <<x, l>>
                                         ELSE IF y = l THEN <<>>
                                         ELSE IF y = p THEN ReplaceElem(t.kids[p], x, f)
                                         ELSE t.kids[y]]]

\* the edges a new leaf l may be attached to: every edge, or (narrow) only the
\* pendant edges of taxon 1 and of the leaf added last
AttachPoints(t, l, wide) ==
    IF wide THEN NodesOf(t) \ {t.seed} ELSE {1, l - 1}

RECURSIVE GrowTrees(_, _, _, _)
GrowTrees(T, l, n, wide) ==
    IF l > n THEN T
    ELSE GrowTrees({AttachLeaf(t, x, l) : <<t, x>> \in
                       UNION {{<<t, x>> : x \in AttachPoints(t, l, wide)} : t \in T}},
                   l + 1, n, wide)

TrifurcatingTrees(n) == GrowTrees({Star3}, 4, n, TRUE)

\* the same unrooted tree written with a root of degree two: the children at
\* positions a and b of the seed node are put below a new node
BasalBifurcation(t, a, b) ==
    LET f == FreshNode(t)
        s == t.seed
        ka == t.kids[s][a]
        kb == t.kids[s][b]
        all == NodesOf(t) \cup {f}
    IN [t EXCEPT !.par = [y \in all |-> IF y = f THEN s
                                        ELSE IF y \in {ka, kb} THEN f ELSE t.par[y]],
                 !.kids = [y \in all |->
                              IF y = f THEN <<ka, kb>>
                              ELSE IF y = s
                                   THEN (IF a = 1 THEN <<f, t.kids[s][3]>>
                                         ELSE <<t.kids[s][1], f>>)
                              ELSE t.kids[y]]]

BifurcatingTrees(n) ==
    {BasalBifurcation(t, 1, 2) : t \in TrifurcatingTrees(n)}
        \cup {BasalBifurcation(t, 2, 3) : t \in TrifurcatingTrees(n)}

InputTrees(n) == TrifurcatingTrees(n) \cup BifurcatingTrees(n)

\* the species trees main is run on: a part of InputTrees(n)
SpeciesTrees(n) ==
    LET T == GrowTrees({Star3}, 4, n, FALSE)
    IN T \cup {BasalBifurcation(t, 1, 2) : t \in T}

NumTaxa(t) == Cardinality(LeavesOf(t))

(***************************************************************************)
(* Values of the variables a specification does not use                    *)
(***************************************************************************)
RootIdle ==
    /\ tree = Star3 /\ stack = <<>> /\ di = 0 /\ n_ok = 0 /\ n_exc = 0

MainIdle ==
    /\ gene_trees = {} /\ sampling_method = "d" /\ sample_quintet_taxa = <<>>
    /\ quintet_scores = <<>> /\ quintet_unrooted_indices = <<>>
    /\ quintets_r_all = <<>> /\ r_score = <<>> /\ ci = 0 /\ qj = 0
    /\ min_idx = -1 /\ output = NoOutput /\ confidencescore = FALSE
    /\ confidence_scores = <<>>
    /\ rank_file = <<>>

ParIdle == pre_done = {} /\ score_done = {}

(***************************************************************************)
(* SpecRoot: get_all_rooted_trees run on every input tree                  *)
(***************************************************************************)
GenState == [tree |-> tree, stack |-> stack, cands |-> rooted_candidates,
             ok |-> n_ok, exc |-> n_exc]

RootInit ==
    /\ pc = "root_call"
    /\ unrooted_species \in UNION {InputTrees(n) : n \in QuintetSize..MaxTaxa}
    /\ rooted_candidates = <<>>
    /\ RootIdle /\ MainIdle /\ ParIdle

\* rooted_candidates = []; tree = dendropy.Tree(unrooted_tree)
RootEnter ==
    /\ pc = "root_call"
    /\ LET g == GenStart(unrooted_species)
       IN /\ tree' = g.tree /\ stack' = g.stack /\ rooted_candidates' = g.cands
          /\ n_ok' = g.ok /\ n_exc' = g.exc
    /\ pc' = "root_edges"
    /\ UNCHANGED <<unrooted_species, di, mainVars, parVars>>

\* one iteration of the loop over tree.preorder_edge_iter()
RootEdge ==
    /\ pc = "root_edges" /\ stack # <<>>
    /\ LET g == EdgeStep(GenState)
       IN /\ tree' = g.tree /\ stack' = g.stack /\ rooted_candidates' = g.cands
          /\ n_ok' = g.ok /\ n_exc' = g.exc
    /\ UNCHANGED <<pc, unrooted_species, di, mainVars, parVars>>

\* the iterator is exhausted: the duplicate-removal loop starts at i = 1
RootEdgesDone ==
    /\ pc = "root_edges" /\ stack = <<>>
    /\ pc' = "root_dedup" /\ di' = 1
    /\ UNCHANGED <<unrooted_species, rooted_candidates, tree, stack, n_ok, n_exc,
                   mainVars, parVars>>

\* one iteration of the duplicate-removal loop, or its end
RootDedup ==
    /\ pc = "root_dedup"
    /\ IF di >= Len(rooted_candidates)
       THEN pc' = "root_done" /\ UNCHANGED <<rooted_candidates, di>>
       ELSE IF IsDuplicate(rooted_candidates, di)
            THEN /\ rooted_candidates' = RemoveAt(rooted_candidates, di + 1)
                 /\ pc' = "root_done" /\ UNCHANGED di
            ELSE di' = di + 1 /\ UNCHANGED <<pc, rooted_candidates>>
    /\ UNCHANGED <<unrooted_species, tree, stack, n_ok, n_exc, mainVars, parVars>>

RootNext == RootEnter \/ RootEdge \/ RootEdgesDone \/ RootDedup

SpecRoot == RootInit /\ [][RootNext]_vars

(***************************************************************************)
(* Quintet sampling (main, lines 60-70)                                    *)
(***************************************************************************)
RECURSIVE PreorderLeaves(_, _)
PreorderLeaves(t, nodes) ==
    IF nodes = <<>> THEN <<>>
    ELSE LET x == nodes[1]
         IN IF t.kids[x] = <<>> THEN <<x>> \o PreorderLeaves(t, Tail(nodes))
            ELSE PreorderLeaves(t, t.kids[x] \o Tail(nodes))

\* taxon_set = [t.label for t in tns]: the taxa in the order the species tree names them
TaxonSet(t) == PreorderLeaves(t, <<t.seed>>)

\* itertools.combinations(s, k): the k-tuples of s in lexicographic order of position
RECURSIVE Combinations(_, _)
Combinations(s, k) ==
    IF k = 0 THEN << <<>> >>
    ELSE IF Len(s) < k THEN <<>>
    ELSE LET with == Combinations(Tail(s), k - 1)
         IN [x \in 1..Len(with) |-> <<s[1]>> \o with[x]] \o Combinations(Tail(s), k)

Triples(S) == {T \in SUBSET S : Cardinality(T) = 3}

\* triplet_cover_sample: quintets taken in order until every triple of taxa
\* lies in one of them
RECURSIVE TripletCover(_, _, _)
TripletCover(all, uncovered, acc) ==
    IF uncovered = {} \/ all = <<>> THEN acc
    ELSE LET hit == {T \in uncovered : T \subseteq Range(all[1])}
         IN IF hit = {} THEN TripletCover(Tail(all), uncovered, acc)
            ELSE TripletCover(Tail(all), uncovered \ hit, Append(acc, all[1]))

triplet_cover_sample(taxon_set) ==
    TripletCover(Combinations(taxon_set, QuintetSize), Triples(Range(taxon_set)), <<>>)

\* linear_quintet_encoding_sample: the runs of five consecutive taxa in the
\* leaf order of the species tree
linear_quintet_encoding_sample(t, taxon_set) ==
    [x \in 1..(Len(taxon_set) - QuintetSize + 1) |->
        SubSeq(taxon_set, x, x + QuintetSize - 1)]

Rotate(s, r) == [x \in 1..Len(s) |-> s[((x - 1 + r) % Len(s)) + 1]]

\* random_linear_sample: as the linear encoding, on a random (seeded) order of the taxa
random_linear_sample(taxon_set, r) ==
    linear_quintet_encoding_sample(Star3, Rotate(taxon_set, r))

SamplingMethods == {"d", "tc", "le", "rl", "x"}

\* the states of the random generator behind 'rl' (random.seed(args.seed))
RandomStates == {1, 2}

SampleOnlyDefault(n, method) == n = QuintetSize /\ method = "d"

\* len(taxon_set) == 5 or sampling_method == 'd'
SampleExhaustively(n, method) == n = QuintetSize \/ method = "d"

SampleQuintetTaxaElseAll(t, method, r) ==
    LET taxon_set == TaxonSet(t)
    IN IF Len(taxon_set) = QuintetSize \/ method = "d"
       THEN Combinations(taxon_set, QuintetSize)
       ELSE IF method = "tc" THEN triplet_cover_sample(taxon_set)
       ELSE IF method = "le" THEN linear_quintet_encoding_sample(t, taxon_set)
       ELSE IF method = "rl" THEN random_linear_sample(taxon_set, r)
       ELSE Combinations(taxon_set, QuintetSize)

\* the if / elif chain of lines 62-70; r is the random state behind 'rl'
SampleQuintetTaxa(t, method, r) ==
    LET taxon_set == TaxonSet(t)
    IN IF SampleExhaustively(Len(taxon_set), method)
       THEN Combinations(taxon_set, QuintetSize)
       ELSE IF method = "tc" THEN triplet_cover_sample(taxon_set)
       ELSE IF method = "le" THEN linear_quintet_encoding_sample(t, taxon_set)
       ELSE IF method = "rl" THEN random_linear_sample(taxon_set, r)
       ELSE <<>>

(***************************************************************************)
(* Quintet topologies (qr.utils, qr.adr_theory).  An unrooted quintet tree *)
(* is the set of its two cherries, a rooted one the set of its clades.     *)
(***************************************************************************)
\* Tree.extract_tree_with_taxa_labels on a rooted tree: its clades
RestrictRooted(t, q_taxa) ==
    {LeafSet(t, x) \cap Range(q_taxa) : x \in NodesOf(t)} \ {{}}

\* Tree.extract_tree_with_taxa_labels on an unrooted tree: its cherries
RestrictUnrooted(t, q_taxa) ==
    LET Q == Range(q_taxa)
        parts == {LeafSet(t, x) \cap Q : x \in NodesOf(t)}
    IN {b \in parts : Cardinality(b) = 2}
           \cup {Q \ b : b \in {c \in parts : Cardinality(c) = 3}}

\* the 15 unrooted quintet topologies on q_taxa: the middle taxon at position
\* m, the other four positions a < b < c < d paired in one of three ways
QuintetsU(q_taxa) ==
    [u \in 1..15 |->
        LET m == ((u - 1) \div 3) + 1
            w == ((u - 1) % 3) + 1
            o == SelectSeq(<<1, 2, 3, 4, 5>>, LAMBDA x : x # m)
            mate == IF w = 1 THEN 2 ELSE IF w = 2 THEN 3 ELSE 4
            rest == {2, 3, 4} \ {mate}
        IN {{q_taxa[o[1]], q_taxa[o[mate]]}, {q_taxa[o[x]] : x \in rest}}]

\* get_quintet_unrooted_index: the template that the restricted species tree matches
get_quintet_unrooted_index(subtree_u, quintets_u) ==
    (CHOOSE u \in 1..15 : quintets_u[u] = subtree_u) - 1

\* the r-th rooting (r in 0..6) of unrooted topology u_idx on the taxa q_taxa:
\* on the pendant edge of the taxon at position r + 1 (r < 5), or on the
\* internal edge next to the first (r = 5) or second (r = 6) cherry
RootedTemplate(q_taxa, u_idx, r) ==
    LET Q == Range(q_taxa)
        cherries == QuintetsU(q_taxa)[u_idx + 1]
        first == CHOOSE c \in cherries : \A d \in cherries : SetMin(c) <= SetMin(d)
        second == CHOOSE c \in cherries : c # first
        mid == Q \ (first \cup second)
        base == {{x} : x \in Q} \cup {Q}
    IN IF r < 5
       THEN LET x == q_taxa[r + 1]
            IN IF x \in mid THEN base \cup {first, second, Q \ {x}}
               ELSE LET other == IF x \in first THEN second ELSE first
                    IN base \cup {Q \ {x}, other \cup mid, other}
       ELSE LET near == IF r = 5 THEN first ELSE second
                far == IF r = 5 THEN second ELSE first
            IN base \cup {near, far, far \cup mid}

NoMatch == -1

\* get_quintet_rooted_index(subtree_r, quintets_r, u_idx): the position among
\* the 7 rootings of u_idx whose template equals subtree_r.  quintets_r is the
\* template list relabelled with the taxa quintets_r.taxa.
get_quintet_rooted_index(subtree_r, quintets_r, u_idx) ==
    LET hits == {r \in 0..(NumRootings - 1) :
                    RootedTemplate(quintets_r.taxa, u_idx, r) = subtree_r}
    IN IF hits = {} THEN NoMatch ELSE SetMin(hits)

(***************************************************************************)
(* Gene trees and costs (qr.utils, qr.fitness_cost).  The gene-tree        *)
(* collection is described by the set of root edges of the species tree    *)
(* (named by their head nodes) that its quintet distributions support; the *)
(* empty set is a collection that resolves no quintet.                     *)
(***************************************************************************)
MaxCost == 2

GeneTreeInputs(t) ==
    {{}} \cup {{x} : x \in LeavesOf(t)}
         \cup {{x, x + 1} : x \in {y \in LeavesOf(t) : y % 2 = 1 /\ y + 1 \in LeavesOf(t)}}

\* gene_tree_distribution: the rootings of the quintet the gene trees support
gene_tree_distribution(genes, t, q_taxa, u_idx) ==
    {get_quintet_rooted_index(RestrictRooted(reroot_at_edge(t, x), q_taxa),
                              [taxa |-> q_taxa], u_idx) : x \in genes}

\* cost: 0 for a rooting the distribution supports (and for an empty
\* distribution), else the distance to the nearest supported one, capped
cost(u_distribution, r) ==
    IF u_distribution = {} THEN 0
    ELSE LET d == SetMin({IF r >= s THEN r - s ELSE s - r : s \in u_distribution})
         IN IF d > MaxCost THEN MaxCost ELSE d

\* compute_cost_rooted_quintets: the costs of the 7 rootings
compute_cost_rooted_quintets(u_distribution, u_idx) ==
    [x \in 1..NumRootings |-> cost(u_distribution, x - 1)]

(***************************************************************************)
(* Preprocessing and scoring steps of main                                 *)
(***************************************************************************)
Zeros(n) == [x \in 1..n |-> 0]

\* the body of the preprocessing loop (lines 85-97) for quintet j (0-based) on
\* the tables tb = [scores, uidx, rall]
PreprocessStep(tb, t, genes, samples, j) ==
    LET q_taxa == samples[j + 1]
        quintets_u == QuintetsU(q_taxa)
        quintets_r == [taxa |-> q_taxa]
        subtree_u == RestrictUnrooted(t, q_taxa)
        u_idx == get_quintet_unrooted_index(subtree_u, quintets_u)
        quintet_tree_dist == gene_tree_distribution(genes, t, q_taxa, u_idx)
    IN [scores |-> [tb.scores EXCEPT ![j + 1] =
                       compute_cost_rooted_quintets(quintet_tree_dist, u_idx)],
        uidx |-> [tb.uidx EXCEPT ![j + 1] = u_idx],
        rall |-> Append(tb.rall, quintets_r)]

\* r_idx of line 108 for candidate i and quintet j (0-based)
RootedIndex(cands, samples, tb, i, j) ==
    get_quintet_rooted_index(RestrictRooted(cands[i + 1], samples[j + 1]),
                             tb.rall[j + 1], tb.uidx[j + 1])

ScoreStepAssign(rs, tb, r_idx, i, j) ==
    [rs EXCEPT ![i + 1] = tb.scores[j + 1][r_idx + 1]]

\* r_score[i] += quintet_scores[j][r_idx]
ScoreStep(rs, tb, r_idx, i, j) ==
    [rs EXCEPT ![i + 1] = @ + tb.scores[j + 1][r_idx + 1]]

ArgMinLast(rs) ==
    (CHOOSE x \in 1..Len(rs) :
        /\ \A y \in 1..Len(rs) : rs[x] <= rs[y]
        /\ \A y \in (x + 1)..Len(rs) : rs[y] > rs[x]) - 1

\* np.argmin: the first index of the minimum
ArgMin(rs) ==
    (CHOOSE x \in 1..Len(rs) :
        /\ \A y \in 1..Len(rs) : rs[x] <= rs[y]
        /\ \A y \in 1..(x - 1) : rs[y] > rs[x]) - 1

\* (np.max(r_score) - r_score) / np.sum(np.max(r_score) - r_score): each score
\* is the pair <<numerator, denominator>>; <<0, 0>> is the nan of 0.0 / 0.0
ConfidenceScores(rs) ==
    LET mx == SetMax(Range(rs))
        num == [x \in 1..Len(rs) |-> mx - rs[x]]
    IN [x \in 1..Len(rs) |-> <<num[x], SumSeq(num)>>]

IsNaN(c) == c[1] = 0 /\ c[2] = 0

\* np.argsort(r_score): the indices (0-based) in ascending order of score;
\* equal scores are kept in index order, as numpy's sort does on short arrays
ArgSort(rs) ==
    LET before(a, b) == rs[a] < rs[b] \/ (rs[a] = rs[b] /\ a < b)
    IN [p \in 1..Len(rs) |->
           (CHOOSE x \in 1..Len(rs) :
               Cardinality({y \in 1..Len(rs) : before(y, x)}) = p - 1) - 1]

Tables == [scores |-> quintet_scores, uidx |-> quintet_unrooted_indices,
           rall |-> quintets_r_all]

(***************************************************************************)
(* Spec: main                                                              *)
(***************************************************************************)
MinTaxa == QuintetSize - 2

Init ==
    /\ pc = "start"
    /\ unrooted_species \in UNION {SpeciesTrees(n) : n \in MinTaxa..MaxTaxa}
    /\ rooted_candidates = <<>>
    /\ RootIdle /\ MainIdle /\ ParIdle

ReadTreesUnchecked ==
    /\ pc = "start"
    /\ \E g \in GeneTreeInputs(unrooted_species) : gene_trees' = g
    /\ pc' = "search_space"
    /\ UNCHANGED <<unrooted_species, rooted_candidates, rootVars, parVars,
                   sampling_method, sample_quintet_taxa, quintet_scores,
                   quintet_unrooted_indices, quintets_r_all, r_score, ci, qj,
                   min_idx, output, confidencescore, confidence_scores, rank_file>>

\* lines 28-35: the species tree is read; fewer than 5 taxa raise; the gene
\* trees are read
ReadTrees ==
    /\ pc = "start"
    /\ IF NumTaxa(unrooted_species) < QuintetSize
       THEN pc' = "error" /\ UNCHANGED gene_trees
       ELSE /\ \E g \in GeneTreeInputs(unrooted_species) : gene_trees' = g
            /\ pc' = "search_space"
    /\ UNCHANGED <<unrooted_species, rooted_candidates, rootVars, parVars,
                   sampling_method, sample_quintet_taxa, quintet_scores,
                   quintet_unrooted_indices, quintets_r_all, r_score, ci, qj,
                   min_idx, output, confidencescore, confidence_scores, rank_file>>

\* lines 53-55: the search space of rooted trees and its zero scores
CreateSearchSpace ==
    /\ pc = "search_space"
    /\ rooted_candidates' = get_all_rooted_trees(unrooted_species)
    /\ r_score' = Zeros(Len(rooted_candidates'))
    /\ pc' = "sampling"
    /\ UNCHANGED <<unrooted_species, rootVars, parVars, gene_trees,
                   sampling_method, sample_quintet_taxa, quintet_scores,
                   quintet_unrooted_indices, quintets_r_all, ci, qj, min_idx,
                   output, confidencescore, confidence_scores, rank_file>>

\* lines 60-82: the sampled quintets and the empty preprocessing tables
SampleQuintets ==
    /\ pc = "sampling"
    /\ \E method \in SamplingMethods :
       \E r \in IF method = "rl" /\ NumTaxa(unrooted_species) # QuintetSize
                THEN RandomStates ELSE {1} :
          /\ sampling_method' = method
          /\ sample_quintet_taxa' = SampleQuintetTaxa(unrooted_species, method, r)
    /\ quintet_scores' = [x \in 1..Len(sample_quintet_taxa') |-> Zeros(NumRootings)]
    /\ quintet_unrooted_indices' = Zeros(Len(sample_quintet_taxa'))
    /\ quintets_r_all' = <<>>
    /\ qj' = 0
    /\ pc' = "preprocess"
    /\ UNCHANGED <<unrooted_species, rooted_candidates, rootVars, parVars,
                   gene_trees, r_score, ci, min_idx, output, confidencescore,
                   confidence_scores, rank_file>>

\* lines 84-97: one iteration of the preprocessing loop
Preprocess ==
    /\ pc = "preprocess" /\ qj < Len(sample_quintet_taxa)
    /\ LET tb == PreprocessStep(Tables, unrooted_species, gene_trees,
                                sample_quintet_taxa, qj)
       IN /\ quintet_scores' = tb.scores
          /\ quintet_unrooted_indices' = tb.uidx
          /\ quintets_r_all' = tb.rall
    /\ qj' = qj + 1
    /\ UNCHANGED <<pc, unrooted_species, rooted_candidates, rootVars, parVars,
                   gene_trees, sampling_method, sample_quintet_taxa, r_score, ci,
                   min_idx, output, confidencescore, confidence_scores, rank_file>>

PreprocessDone ==
    /\ pc = "preprocess" /\ qj >= Len(sample_quintet_taxa)
    /\ pc' = "scoring" /\ ci' = 0 /\ qj' = 0
    /\ UNCHANGED <<unrooted_species, rooted_candidates, rootVars, parVars,
                   gene_trees, sampling_method, sample_quintet_taxa,
                   quintet_scores, quintet_unrooted_indices, quintets_r_all,
                   r_score, min_idx, output, confidencescore, confidence_scores,
                   rank_file>>

\* lines 103-109: one iteration of the inner scoring loop, or the step to the
\* next candidate
Score ==
    /\ pc = "scoring" /\ ci < Len(rooted_candidates)
    /\ IF qj < Len(sample_quintet_taxa)
       THEN LET r_idx == RootedIndex(rooted_candidates, sample_quintet_taxa,
                                     Tables, ci, qj)
            IN IF r_idx = NoMatch
               THEN pc' = "error" /\ UNCHANGED <<r_score, ci, qj>>
               ELSE /\ r_score' = ScoreStep(r_score, Tables, r_idx, ci, qj)
                    /\ qj' = qj + 1
                    /\ UNCHANGED <<pc, ci>>
       ELSE ci' = ci + 1 /\ qj' = 0 /\ UNCHANGED <<pc, r_score>>
    /\ UNCHANGED <<unrooted_species, rooted_candidates, rootVars, parVars,
                   gene_trees, sampling_method, sample_quintet_taxa,
                   quintet_scores, quintet_unrooted_indices, quintets_r_all,
                   min_idx, output, confidencescore, confidence_scores, rank_file>>

\* lines 111-113: the best rooting is written
SelectBest ==
    /\ pc = "scoring" /\ ci >= Len(rooted_candidates)
    /\ min_idx' = ArgMin(r_score)
    /\ output' = rooted_candidates[min_idx' + 1]
    /\ pc' = "confidence"
    /\ UNCHANGED <<unrooted_species, rooted_candidates, rootVars, parVars,
                   gene_trees, sampling_method, sample_quintet_taxa,
                   quintet_scores, quintet_unrooted_indices, quintets_r_all,
                   r_score, ci, qj, confidencescore, confidence_scores, rank_file>>

\* lines 119-126: the confidence scores and the ranking, when asked for
Confidence ==
    /\ pc = "confidence"
    /\ \E cfs \in BOOLEAN :
          /\ confidencescore' = cfs
          /\ IF cfs
             THEN /\ confidence_scores' = ConfidenceScores(r_score)
                  /\ rank_file' = [p \in 1..Len(r_score) |->
                        [tree |-> ArgSort(r_score)[p],
                         score |-> confidence_scores'[ArgSort(r_score)[p] + 1]]]
             ELSE UNCHANGED <<confidence_scores, rank_file>>
    /\ pc' = "done"
    /\ UNCHANGED <<unrooted_species, rooted_candidates, rootVars, parVars,
                   gene_trees, sampling_method, sample_quintet_taxa,
                   quintet_scores, quintet_unrooted_indices, quintets_r_all,
                   r_score, ci, qj, min_idx, output>>

Next ==
    \/ ReadTrees \/ CreateSearchSpace \/ SampleQuintets \/ Preprocess
    \/ PreprocessDone \/ Score \/ SelectBest \/ Confidence

Spec == Init /\ [][Next]_vars

(***************************************************************************)
(* Properties of get_all_rooted_trees (SpecRoot)                           *)
(***************************************************************************)
PairwiseDistinct(cands) ==
    \A a \in 1..Len(cands) : \A b \in (a + 1)..Len(cands) :
        symmetric_difference(cands[a], cands[b]) > 0

\* C1: for a fully resolved unrooted tree on n >= 5 taxa, get_all_rooted_trees
\* returns between 2n-5 and 2n-3 rooted trees, no two of them with symmetric
\* difference 0, wherever in the list the duplicates were.
C1_DistinctRootings ==
    pc = "root_done" =>
        LET n == NumTaxa(unrooted_species)
        IN /\ Len(rooted_candidates) >= 2 * n - 5
           /\ Len(rooted_candidates) <= 2 * n - 3
           /\ PairwiseDistinct(rooted_candidates)
           /\ \A c \in 1..Len(rooted_candidates) : rooted_candidates[c].rooted

\* a run in which the loop removed a duplicate that was not next to entry 0
C1_Witness ==
    /\ pc = "root_done"
    /\ Len(rooted_candidates) = n_ok - 1
    /\ di > 2
    /\ NumTaxa(unrooted_species) = MaxTaxa

\* C9: an edge whose rerooting raises adds no candidate and the loop goes on
\* to the next edge (every edge of the input tree is tried); and the
\* duplicate-removal loop drops at most one candidate: the list returned has
\* k or k-1 entries, k the number of edges rerooted.
C9_SkipAndDropAtMostOne ==
    /\ pc = "root_edges" => Len(rooted_candidates) = n_ok
    /\ pc = "root_dedup" => Len(rooted_candidates) = n_ok
    /\ pc \in {"root_dedup", "root_done"} =>
          /\ stack = <<>>
          /\ n_ok + n_exc = Cardinality(NodesOf(unrooted_species))
    /\ pc = "root_done" => Len(rooted_candidates) \in {n_ok, n_ok - 1}

\* a finished run in which an edge raised and other edges were rerooted after it
C9_Witness ==
    /\ pc = "root_done"
    /\ n_exc > 0
    /\ n_ok > 0
    /\ Len(rooted_candidates) = n_ok

(***************************************************************************)
(* Properties of main (Spec)                                               *)
(***************************************************************************)
AfterSampling == pc \in {"preprocess", "scoring", "confidence", "done"}

AfterScoring == pc \in {"confidence", "done"}

\* the total of candidate i (0-based) over the quintets before index upto
RECURSIVE QuintetSum(_, _)
QuintetSum(i, upto) ==
    IF upto = 0 THEN 0
    ELSE QuintetSum(i, upto - 1)
             + quintet_scores[upto][RootedIndex(rooted_candidates,
                   sample_quintet_taxa, Tables, i, upto - 1) + 1]

\* C2: the tree written is a candidate of least total cost, and among the
\* candidates of least total cost the one of lowest index.
C2_BestIsFirstMinimum ==
    AfterScoring =>
        /\ min_idx \in 0..(Len(rooted_candidates) - 1)
        /\ \A k \in 1..Len(r_score) : r_score[min_idx + 1] <= r_score[k]
        /\ \A k \in 1..min_idx : r_score[k] > r_score[min_idx + 1]
        /\ output = rooted_candidates[min_idx + 1]

\* a run where several candidates share the least cost and the first of them
\* is not the first candidate
C2_Witness ==
    /\ pc = "done"
    /\ min_idx > 0
    /\ \E k \in 1..Len(r_score) : k # min_idx + 1 /\ r_score[k] = r_score[min_idx + 1]

UniformCosts == \A a, b \in 1..Len(r_score) : r_score[a] = r_score[b]

\* C3: when confidence scores are asked for and all candidates have the same
\* total cost, no score is the quotient 0/0: each is 1/|candidates|.
C3_UniformConfidence ==
    (pc = "done" /\ confidencescore /\ UniformCosts) =>
        \A c \in 1..Len(confidence_scores) :
            /\ ~IsNaN(confidence_scores[c])
            /\ confidence_scores[c][1] * Len(rooted_candidates) = confidence_scores[c][2]

\* C4: the confidence scores sum to 1, and read in the order of the ranking
\* file they never increase.
C4_ConfidenceSumsToOne ==
    (pc = "done" /\ confidencescore) =>
        /\ \A c \in 1..Len(confidence_scores) : confidence_scores[c][2] # 0
        /\ SumSeq([c \in 1..Len(confidence_scores) |-> confidence_scores[c][1]])
               = confidence_scores[1][2]
        /\ \A p \in 1..(Len(rank_file) - 1) :
               rank_file[p].score[1] >= rank_file[p + 1].score[1]

\* C5: with fewer than 5 taxa the run ends in the error raised at line 33
\* before anything is computed: no candidate, no quintet, no score, no output.
C5_FewTaxaAbort ==
    NumTaxa(unrooted_species) < QuintetSize =>
        /\ pc \in {"start", "error"}
        /\ rooted_candidates = <<>>
        /\ sample_quintet_taxa = <<>> /\ quintet_scores = <<>>
        /\ r_score = <<>> /\ min_idx = -1
        /\ output = NoOutput /\ rank_file = <<>>

C5_Witness ==
    /\ pc = "error"
    /\ NumTaxa(unrooted_species) = QuintetSize - 1

\* C6: each total starts at 0; during the scoring pass the total of the
\* candidate being scored is the sum over the quintets already visited; at
\* the end r_score[i] is the sum over every sampled quintet j, once, of
\* quintet_scores[j][r_idx(i, j)], with r_idx(i, j) in 0..6.
C6_ScoreIsQuintetSum ==
    /\ pc \in {"sampling", "preprocess"} =>
          r_score = Zeros(Len(rooted_candidates))
    /\ pc = "scoring" =>
          /\ \A c \in (ci + 2)..Len(r_score) : r_score[c] = 0
          /\ ci < Len(r_score) => r_score[ci + 1] = QuintetSum(ci, qj)
    /\ pc = "confidence" =>
          /\ Len(r_score) = Len(rooted_candidates)
          /\ \A c \in 1..Len(r_score) :
                /\ r_score[c] = QuintetSum(c - 1, Len(sample_quintet_taxa))
                /\ \A j \in 1..Len(sample_quintet_taxa) :
                      RootedIndex(rooted_candidates, sample_quintet_taxa, Tables,
                                  c - 1, j - 1) \in 0..(NumRootings - 1)

\* the scoring pass has ended over several quintets with non-zero costs
C6_Witness ==
    /\ pc = "confidence"
    /\ Len(sample_quintet_taxa) > 2
    /\ \E c \in 1..Len(r_score) : r_score[c] > MaxCost
    /\ \E c \in 1..Len(r_score) : r_score[c] = 0

FiveSubsets(S) == {Q \in SUBSET S : Cardinality(Q) = QuintetSize}

\* C7: with exactly 5 taxa, or with policy 'd', the sampled quintets are all
\* the 5-combinations of the taxon set: tuples of 5 distinct taxa of the set,
\* each combination once.
C7_ExhaustiveSample ==
    (AfterSampling /\ (NumTaxa(unrooted_species) = QuintetSize \/ sampling_method = "d")) =>
        LET S == LeavesOf(unrooted_species)
        IN /\ \A x \in 1..Len(sample_quintet_taxa) :
                 /\ Len(sample_quintet_taxa[x]) = QuintetSize
                 /\ Cardinality(Range(sample_quintet_taxa[x])) = QuintetSize
                 /\ Range(sample_quintet_taxa[x]) \subseteq S
           /\ {Range(sample_quintet_taxa[x]) : x \in 1..Len(sample_quintet_taxa)}
                  = FiveSubsets(S)
           /\ Len(sample_quintet_taxa) = Cardinality(FiveSubsets(S))

\* policy 'd' on more than 5 taxa
C7_Witness ==
    /\ pc = "done"
    /\ sampling_method = "d"
    /\ NumTaxa(unrooted_species) > QuintetSize
    /\ Len(sample_quintet_taxa) > 1

\* C10: with more than 5 taxa and a policy that is none of d, tc, le, rl the
\* run raises nothing: no quintet is sampled, the two loops do nothing, every
\* total stays 0 and the first candidate is written.
C10_UnknownPolicy ==
    (AfterSampling /\ NumTaxa(unrooted_species) > QuintetSize
         /\ sampling_method \notin {"d", "tc", "le", "rl"}) =>
        /\ sample_quintet_taxa = <<>>
        /\ quintet_scores = <<>> /\ quintets_r_all = <<>>
        /\ r_score = Zeros(Len(rooted_candidates))
        /\ Len(rooted_candidates) > 0
        /\ AfterScoring => min_idx = 0 /\ output = rooted_candidates[1]

C10_Witness ==
    /\ pc = "done"
    /\ NumTaxa(unrooted_species) > QuintetSize
    /\ sampling_method = "x"
    /\ output # NoOutput

(***************************************************************************)
(* SpecPar: the bodies of the two loops of main run in any order: first    *)
(* the preprocessing steps of the quintets, then the scoring of the        *)
(* candidates (one candidate's inner loop at a time).                      *)
(***************************************************************************)
ParMaxQuintets == 4

\* the inner scoring loop (lines 105-109) of candidate i, from quintet j on;
\* <<>> when a rooted index is not found
RECURSIVE ScoreCandidate(_, _, _, _, _, _)
ScoreCandidate(rs, cands, samples, tb, i, j) ==
    IF j >= Len(samples) THEN rs
    ELSE LET r_idx == RootedIndex(cands, samples, tb, i, j)
         IN IF r_idx = NoMatch THEN <<>>
            ELSE ScoreCandidate(ScoreStep(rs, tb, r_idx, i, j), cands, samples, tb,
                                i, j + 1)

\* the preprocessing loop run in index order from quintet j on
RECURSIVE SeqPreprocess(_, _, _, _, _)
SeqPreprocess(tb, t, genes, samples, j) ==
    IF j >= Len(samples) THEN tb
    ELSE SeqPreprocess(PreprocessStep(tb, t, genes, samples, j), t, genes, samples,
                       j + 1)

\* the scoring loop run in index order from candidate i on
RECURSIVE SeqScore(_, _, _, _, _)
SeqScore(rs, cands, samples, tb, i) ==
    IF i >= Len(cands) THEN rs
    ELSE SeqScore(ScoreCandidate(rs, cands, samples, tb, i, 0), cands, samples, tb,
                  i + 1)

EmptyTables(nq) == [scores |-> [x \in 1..nq |-> Zeros(NumRootings)],
                    uidx |-> Zeros(nq), rall |-> <<>>]

SeqTables == SeqPreprocess(EmptyTables(Len(sample_quintet_taxa)), unrooted_species,
                           gene_trees, sample_quintet_taxa, 0)

SeqScores == SeqScore(Zeros(Len(rooted_candidates)), rooted_candidates,
                      sample_quintet_taxa, SeqTables, 0)

ParGeneInputs(t) == {g \in GeneTreeInputs(t) : g \subseteq {1}}

ParInit ==
    /\ pc = "par_pre"
    /\ unrooted_species \in
           UNION {GrowTrees({Star3}, 4, n, FALSE) : n \in QuintetSize..MaxTaxa}
    /\ rooted_candidates = get_all_rooted_trees(unrooted_species)
    /\ RootIdle /\ ParIdle
    /\ gene_trees \in ParGeneInputs(unrooted_species)
    /\ sampling_method \in SamplingMethods
    /\ sample_quintet_taxa = SampleQuintetTaxa(unrooted_species, sampling_method, 1)
    /\ Len(sample_quintet_taxa) <= ParMaxQuintets
    /\ quintet_scores = EmptyTables(Len(sample_quintet_taxa)).scores
    /\ quintet_unrooted_indices = EmptyTables(Len(sample_quintet_taxa)).uidx
    /\ quintets_r_all = <<>>
    /\ r_score = Zeros(Len(rooted_candidates))
    /\ ci = 0 /\ qj = 0 /\ min_idx = -1 /\ output = NoOutput
    /\ confidencescore = FALSE /\ confidence_scores = <<>> /\ rank_file = <<>>

\* the body of the preprocessing loop for any quintet not yet done
ParPreprocess ==
    /\ pc = "par_pre"
    /\ \E j \in (0..(Len(sample_quintet_taxa) - 1)) \ pre_done :
          /\ LET tb == PreprocessStep(Tables, unrooted_species, gene_trees,
                                      sample_quintet_taxa, j)
             IN /\ quintet_scores' = tb.scores
                /\ quintet_unrooted_indices' = tb.uidx
                /\ quintets_r_all' = tb.rall
          /\ pre_done' = pre_done \cup {j}
    /\ UNCHANGED <<pc, unrooted_species, rooted_candidates, rootVars, gene_trees,
                   sampling_method, sample_quintet_taxa, r_score, ci, qj, min_idx,
                   output, confidencescore, confidence_scores, rank_file,
                   score_done>>

ParPreprocessDone ==
    /\ pc = "par_pre" /\ pre_done = 0..(Len(sample_quintet_taxa) - 1)
    /\ pc' = "par_score"
    /\ UNCHANGED <<unrooted_species, rooted_candidates, rootVars, mainVars, parVars>>

\* the inner scoring loop of any candidate not yet scored
ParScore ==
    /\ pc = "par_score"
    /\ \E i \in (0..(Len(rooted_candidates) - 1)) \ score_done :
          LET rs == ScoreCandidate(r_score, rooted_candidates, sample_quintet_taxa,
                                   Tables, i, 0)
          IN IF rs = <<>>
             THEN pc' = "error" /\ UNCHANGED <<r_score, score_done>>
             ELSE r_score' = rs /\ score_done' = score_done \cup {i} /\ UNCHANGED pc
    /\ UNCHANGED <<unrooted_species, rooted_candidates, rootVars, gene_trees,
                   sampling_method, sample_quintet_taxa, quintet_scores,
                   quintet_unrooted_indices, quintets_r_all, ci, qj, min_idx,
                   output, confidencescore, confidence_scores, rank_file, pre_done>>

ParScoreDone ==
    /\ pc = "par_score" /\ score_done = 0..(Len(rooted_candidates) - 1)
    /\ pc' = "par_done"
    /\ UNCHANGED <<unrooted_species, rooted_candidates, rootVars, mainVars, parVars>>

ParNext == ParPreprocess \/ ParPreprocessDone \/ ParScore \/ ParScoreDone

SpecPar == ParInit /\ [][ParNext]_vars

====
